---- MODULE Spec2Model ----
(***************************************************************************)
(* Model of the knowledge-base chat front-end: chat.py (file inventory     *)
(* scan, fuzzy link resolution, markdown link extraction, message rewrite, *)
(* the user/bot turn handlers) and src/azure.py (the streaming agent call).*)
(*                                                                         *)
(* Text is a sequence of tokens.  Every character the code inspects is a   *)
(* token of its own: "[" "]" "(" ")" "." "/" and the five characters       *)
(* html.escape rewrites.  The URL schemes "http://" and "https://" and the *)
(* percent escape "%20" are single tokens.  Any other token stands for one *)
(* or more characters none of which the code inspects; the fixed pieces of *)
(* generated markup are such tokens.                                       *)
(***************************************************************************)
EXTENDS Integers, Sequences, FiniteSets, TLC

(***************************************************************************)
(* Python values                                                           *)
(***************************************************************************)
\* Optional values: None is the empty tuple, a present value v is <<v>>.
None == <<>>
Some(v) == <<v>>

\* s.startswith(p) / substring test at a position
IsAt(s, p, sub) ==
    /\ p >= 1
    /\ p + Len(sub) - 1 <= Len(s)
    /\ SubSeq(s, p, p + Len(sub) - 1) = sub

\* index of the first token tok at or after position from, 0 when there is none
RECURSIVE FirstIndex(_, _, _)
FirstIndex(s, tok, from) ==
    IF from > Len(s) THEN 0
    ELSE IF s[from] = tok THEN from
    ELSE FirstIndex(s, tok, from + 1)

\* index of the last token tok at or before position upto, 0 when there is none
RECURSIVE LastIndexUpTo(_, _, _)
LastIndexUpTo(s, tok, upto) ==
    IF upto < 1 THEN 0
    ELSE IF s[upto] = tok THEN upto
    ELSE LastIndexUpTo(s, tok, upto - 1)

LastIndex(s, tok) == LastIndexUpTo(s, tok, Len(s))

\* position of the first occurrence of sub in s at or after from, 0 when absent
RECURSIVE FindFrom(_, _, _)
FindFrom(s, sub, from) ==
    IF from + Len(sub) - 1 > Len(s) THEN 0
    ELSE IF IsAt(s, from, sub) THEN from
    ELSE FindFrom(s, sub, from + 1)

\* str.find(sub): position of the first occurrence of sub in s, 0 when absent
str_find(s, sub) == FindFrom(s, sub, 1)

\* the text with the tokens first..last replaced by new
Splice(s, first, last, new) ==
    SubSeq(s, 1, first - 1) \o new \o SubSeq(s, last + 1, Len(s))

\* str.replace(old, new, 1): only the first occurrence is replaced
str_replace_first(s, old, new) ==
    LET p == str_find(s, old)
    IN  IF p = 0 THEN s ELSE Splice(s, p, p + Len(old) - 1, new)

\* "".join(parts)
RECURSIVE str_join(_)
str_join(parts) ==
    IF parts = <<>> THEN <<>> ELSE Head(parts) \o str_join(Tail(parts))

\* html.escape(s): & < > " ' become entities, every other token is kept
html_escape_token(t) ==
    CASE t = "&"  -> "&amp;"
      [] t = "<"  -> "&lt;"
      [] t = ">"  -> "&gt;"
      [] t = "\"" -> "&quot;"
      [] t = "'"  -> "&#x27;"
      [] OTHER    -> t

html_escape(s) == [i \in 1..Len(s) |-> html_escape_token(s[i])]

\* urllib.parse.unquote on the percent escapes of the model's alphabet
unquote_token(t) == IF t = "%20" THEN " " ELSE t

unquote(s) == [i \in 1..Len(s) |-> unquote_token(s[i])]

\* pathlib: the components of a path (empty and "." components are dropped)
RECURSIVE path_parts(_)
path_parts(p) ==
    LET cut  == FirstIndex(p, "/", 1)
        head == IF cut = 0 THEN p ELSE SubSeq(p, 1, cut - 1)
        rest == IF cut = 0 THEN <<>> ELSE path_parts(SubSeq(p, cut + 1, Len(p)))
    IN  IF p = <<>> THEN <<>>
        ELSE IF head = <<>> \/ head = <<".">> THEN rest
        ELSE <<head>> \o rest

\* Path(p).name: the last component, empty when there is none
path_name(p) ==
    LET parts == path_parts(p)
    IN  IF parts = <<>> THEN <<>> ELSE parts[Len(parts)]

\* Path(p).stem: the name without its last suffix; a leading or a trailing
\* dot starts no suffix
path_stem(p) ==
    LET name == path_name(p)
        dot  == LastIndex(name, ".")
    IN  IF 1 < dot /\ dot < Len(name) THEN SubSeq(name, 1, dot - 1) ELSE name

\* s.split('.')[0]
split_dot_first(s) ==
    LET dot == FirstIndex(s, ".", 1)
    IN  IF dot = 0 THEN s ELSE SubSeq(s, 1, dot - 1)

(***************************************************************************)
(* File Inventory Scanner: scan_files_directory                            *)
(***************************************************************************)
Threshold == 60

\* A directory state is [exists, io_error, walk]: whether the root exists,
\* whether the walk raises, and the entries rglob("*") yields, in its order.
file_record(entry) ==
    [path             |-> entry.path,
     name_without_ext |-> path_stem(entry.path),
     full_name        |-> path_name(entry.path)]

RECURSIVE collect_files(_)
collect_files(walk) ==
    IF walk = <<>> THEN <<>>
    ELSE IF Head(walk).is_file
         THEN <<file_record(Head(walk))>> \o collect_files(Tail(walk))
         ELSE collect_files(Tail(walk))

\* None when the root is missing, when the walk raises, or when no regular
\* file is found; the list of file records otherwise
scan_files_directory(dir) ==
    IF ~dir.exists THEN None
    ELSE IF dir.io_error THEN None
    ELSE LET all_files == collect_files(dir.walk)
         IN  IF all_files = <<>> THEN None ELSE Some(all_files)

(***************************************************************************)
(* Fuzzy Link Resolver: find_best_match                                    *)
(***************************************************************************)
\* thefuzz process.extractOne(query, choices) under the scorer wr, a table of
\* scores 0..100 indexed by <<query, choice>>: the first choice that attains
\* the highest score, with that score; None for no choices
extractOne(query, choices, wr) ==
    IF choices = <<>> THEN None
    ELSE LET best == CHOOSE i \in 1..Len(choices) :
                        /\ \A j \in 1..Len(choices) :
                              wr[<<query, choices[j]>>] <= wr[<<query, choices[i]>>]
                        /\ \A j \in 1..(i - 1) :
                              wr[<<query, choices[j]>>] < wr[<<query, choices[i]>>]
         IN  Some(<<choices[best], wr[<<query, choices[best]>>]>>)

\* list.index(x): position of the first element equal to x
list_index(names, x) ==
    CHOOSE i \in 1..Len(names) :
        names[i] = x /\ \A j \in 1..(i - 1) : names[j] # x

\* a mutation of find_best_match: a score equal to the threshold is accepted
find_best_match_at_threshold(filename, file_list, wr) ==
    IF file_list = None \/ file_list[1] = <<>> THEN None
    ELSE LET files       == file_list[1]
             target_name == path_stem(filename)
             names       == [i \in 1..Len(files) |-> files[i].name_without_ext]
             best_match  == extractOne(target_name, names, wr)
         IN  IF best_match # None /\ best_match[1][2] >= Threshold
             THEN Some(files[list_index(names, best_match[1][1])].path)
             ELSE None

\* file_list is None or Some(list of file records); the result is None or
\* Some(path)
find_best_match(filename, file_list, wr) ==
    IF file_list = None \/ file_list[1] = <<>> THEN None
    ELSE LET files       == file_list[1]
             target_name == path_stem(filename)
             names       == [i \in 1..Len(files) |-> files[i].name_without_ext]
             best_match  == extractOne(target_name, names, wr)
         IN  IF best_match # None /\ best_match[1][2] > Threshold
             THEN Some(files[list_index(names, best_match[1][1])].path)
             ELSE None

(***************************************************************************)
(* Markdown Link Extractor: extract_markdown_links                         *)
(***************************************************************************)
\* The pattern \[([^\]]+)\]\(([^)]+)\) tried at position i: the position of
\* the closing ")" of the match that starts at i, 0 when none starts there.
\* [^\]]+ runs to the first "]" and [^)]+ to the first ")"; both need one
\* character at least.
match_end(text, i) ==
    IF text[i] # "[" THEN 0
    ELSE LET j == FirstIndex(text, "]", i + 1)
         IN  IF j = 0 \/ j = i + 1 THEN 0
             ELSE IF j + 1 > Len(text) \/ text[j + 1] # "(" THEN 0
             ELSE LET k == FirstIndex(text, ")", j + 2)
                  IN  IF k = 0 \/ k = j + 2 THEN 0 ELSE k

\* the leftmost non-overlapping matches from position i on, each with the
\* span it occupies in the text and its two groups
RECURSIVE re_finditer(_, _)
re_finditer(text, i) ==
    IF i > Len(text) THEN <<>>
    ELSE LET k == match_end(text, i)
         IN  IF k = 0 THEN re_finditer(text, i + 1)
             ELSE LET j == FirstIndex(text, "]", i + 1)
                  IN  <<[first     |-> i,
                         last      |-> k,
                         link_text |-> SubSeq(text, i + 1, j - 1),
                         url       |-> SubSeq(text, j + 2, k - 1)]>>
                      \o re_finditer(text, k + 1)

\* re.findall(pattern, text): the (link_text, url) pairs, in order
re_findall(text) ==
    LET found == re_finditer(text, 1)
    IN  [n \in 1..Len(found) |->
            [link_text |-> found[n].link_text, url |-> found[n].url]]

\* url.startswith("http://") or url.startswith("https://")
is_http(url) == url # <<>> /\ url[1] \in {"http://", "https://"}

\* the candidate file name of a link, percent-decoded
candidate_filename(link_text, url) ==
    LET from_url == IF url # <<>> THEN path_name(url) ELSE link_text
        filename == IF from_url = <<>> \/ FirstIndex(from_url, ".", 1) = 0
                    THEN link_text ELSE from_url
    IN  unquote(filename)

file_reference(path) == <<"/gradio_api/file=">> \o path

\* a mutation of final_url: an unresolved link gets no URL at all
final_url_dropped(matched_filepath, url) ==
    IF matched_filepath # None THEN file_reference(matched_filepath[1]) ELSE <<>>

final_url(matched_filepath, url) ==
    IF matched_filepath # None THEN file_reference(matched_filepath[1]) ELSE url

\* the entry appended to links_info for one non-http match
link_info(m, file_list, wr) ==
    LET filename         == candidate_filename(m.link_text, m.url)
        matched_filepath == find_best_match(filename, file_list, wr)
    IN  [filename      |-> split_dot_first(filename),
         url           |-> final_url(matched_filepath, m.url),
         original_link |-> <<"[">> \o m.link_text \o <<"]", "(">> \o m.url \o <<")">>,
         text          |-> m.link_text,
         fuzzy_matched |-> matched_filepath # None]

\* the matches that are not skipped as http/https links
RECURSIVE non_http(_)
non_http(matches) ==
    IF matches = <<>> THEN <<>>
    ELSE IF is_http(Head(matches).url) THEN non_http(Tail(matches))
    ELSE <<Head(matches)>> \o non_http(Tail(matches))

\* a mutation of extract_markdown_links: the directory is scanned again for
\* every link (the legacy find_closest_file per link)
extract_rescanning(text, dir, wr) ==
    LET kept == non_http(re_findall(text))
    IN  [links_info  |-> [n \in 1..Len(kept) |->
                            link_info(kept[n], scan_files_directory(dir), wr)],
         scan_log    |-> [n \in 1..Len(kept) |-> scan_files_directory(dir)],
         resolve_log |-> [n \in 1..Len(kept) |->
                            [filename  |-> candidate_filename(kept[n].link_text, kept[n].url),
                             file_list |-> scan_files_directory(dir)]]]

\* The result of one call, with the calls it made: links_info is what the
\* code returns, scan_log the results of its calls of scan_files_directory,
\* resolve_log the arguments of its calls of find_best_match.
extract_markdown_links(text, dir, wr) ==
    LET matches == re_findall(text)
    IN  IF matches = <<>>
        THEN [links_info |-> <<>>, scan_log |-> <<>>, resolve_log |-> <<>>]
        ELSE LET file_list == scan_files_directory(dir)
                 kept      == non_http(matches)
             IN  [links_info  |-> [n \in 1..Len(kept) |->
                                     link_info(kept[n], file_list, wr)],
                  scan_log    |-> <<file_list>>,
                  resolve_log |-> [n \in 1..Len(kept) |->
                                     [filename  |-> candidate_filename(kept[n].link_text, kept[n].url),
                                      file_list |-> file_list]]]

(***************************************************************************)
(* Message Rewriter / Card Synthesizer: the rewrite block of bot           *)
(***************************************************************************)
\* anchor ids are numbered from 0, links_info is indexed from 1
anchor_id(i) == "source-card-" \o ToString(i)

anchor_link(i, link) ==
    <<"<a href=\"#", anchor_id(i), "\" onclick=\"document.getElementById",
      "(", "'", anchor_id(i), "'", ")", ".scrollIntoView",
      "(", "{behavior: ", "'", "smooth", "'", "}", ")", "; return false;\"", ">">>
    \o html_escape(link.text) \o <<"</a>">>

\* the message after the first n links were replaced, each by one
\* replace(original_link, anchor_link, 1) on the result of the one before
RECURSIVE replace_links(_, _, _)
replace_links(message, links, n) ==
    IF n = 0 THEN message
    ELSE str_replace_first(replace_links(message, links, n - 1),
                           links[n].original_link,
                           anchor_link(n - 1, links[n]))

card_html(i, link) ==
    <<"<div class=\"source-card\" id=\"", anchor_id(i),
      "\"><div class=\"card-icon\">page-icon</div><div class=\"card-title\">">>
    \o html_escape(link.filename)
    \o <<"</div><a href=\"">>
    \o html_escape(link.url)
    \o <<"\" class=\"card-link\" target=\"_blank\">Download</a></div>">>

cards_html(links) ==
    <<"\n\n<div class=\"source-cards-container\">">>
    \o str_join([n \in 1..Len(links) |-> card_html(n - 1, links[n])])
    \o <<"</div>">>

\* the content the assistant entry gets when links_info is not empty
rewritten_content(final_message, links) ==
    replace_links(final_message, links, Len(links)) \o cards_html(links)

(***************************************************************************)
(* Bounds and input alphabets                                              *)
(***************************************************************************)
\* the largest number of chunks a stream delivers
MaxChunks == 3
\* the largest number of entries a directory walk yields
MaxFiles == 2

\* The chunks an agent stream may deliver: a link to a percent-encoded file
\* path, the start of a link, the start of an http link, a link whose text
\* holds parentheses and whose URL has no extension, and plain text with
\* parentheses.
Chunks ==
    { <<"[", "a", "]", "(", "d", "/", "b", "%20", "c", ".", "p", ")">>,
      <<"[", "a", "]", "(">>,
      <<"[", "a", "]", "(", "http://", "h", "/">>,
      <<"[", "(", "n", ")", "]", "(", "r", ")">>,
      <<"(", "x", ")", " ">> }

\* what the user may have typed
UserMessages == { <<"where is the report?">> }

\* the chat history before the turn: empty, or one earlier exchange
PriorHistories ==
    { <<>>,
      <<[role |-> "user", content |-> <<"hello">>],
        [role |-> "assistant", content |-> <<"Hello! Ask me about the files.">>]>> }

\* what rglob may yield under public/files/: two files and a sub-directory
FileEntries ==
    { [path |-> <<"public", "/", "files", "/", "d", "/", "b", " ", "c", ".", "p">>,
       is_file |-> TRUE],
      [path |-> <<"public", "/", "files", "/", "r", ".", "t">>, is_file |-> TRUE],
      [path |-> <<"public", "/", "files", "/", "d">>, is_file |-> FALSE] }

\* the walks over a set of entries: every order of up to MaxFiles of them
WalksOf(entries) ==
    UNION { { w \in [1..n -> entries] :
                \A i, j \in 1..n : i # j => w[i] # w[j] } : n \in 0..MaxFiles }

\* the directory states: a missing root, a walk that raises, and every walk
DirectoriesOf(entries) ==
    { [exists |-> FALSE, io_error |-> FALSE, walk |-> <<>>],
      [exists |-> TRUE, io_error |-> TRUE, walk |-> <<>>] }
    \cup { [exists |-> TRUE, io_error |-> FALSE, walk |-> w] : w \in WalksOf(entries) }

Directories == DirectoriesOf(FileEntries)

\* the scores the scorer may give around the threshold
BoundaryScores == { Threshold, Threshold + 1 }

\* the scorer tables a call of extract_markdown_links on text, with the
\* directory in state dir, can meet: one score for every name it compares
TargetNames(text) ==
    LET kept == non_http(re_findall(text))
    IN  { path_stem(candidate_filename(kept[n].link_text, kept[n].url)) :
            n \in 1..Len(kept) }

StemsOf(file_list) ==
    IF file_list = None THEN {}
    ELSE { file_list[1][i].name_without_ext : i \in 1..Len(file_list[1]) }

Scorers(text, dir) ==
    [ TargetNames(text) \X StemsOf(scan_files_directory(dir)) -> BoundaryScores ]

(***************************************************************************)
(* State                                                                   *)
(***************************************************************************)
VARIABLES
    msg,            \* the text box
    history,        \* the chat history: a list of [role, content] entries
    pc,             \* where the turn is: idle, submitted, streaming, done
    published,      \* the histories bot has yielded to the display, in order
    chunks,         \* the chunks the stream has delivered, in order
    stream_end,     \* how the stream ended: open, complete, raised
    extract_calls,  \* the calls of extract_markdown_links: argument and result
    client,         \* azure.py: whether the global _client exists
    current_thread, \* azure.py: the client's current_thread, None or Some(id)
    agent,          \* azure.py: the client's cached _agent, None or Some(id)
    gen,            \* azure.py: where send_message_streaming is suspended
    target_thread_id, \* azure.py: the thread the call posts to, None or Some(id)
    sdk_calls,      \* azure.py: the calls of the Azure SDK made, with outcomes
    resolve_in,     \* the arguments of a call of find_best_match
    resolve_out,    \* its result, once it has returned
    calls           \* azure.py: the overlapping calls of send_message_streaming

botvars == <<msg, history, pc, published, chunks, stream_end, extract_calls>>

azvars == <<client, current_thread, agent, gen, target_thread_id, sdk_calls>>

resolvevars == <<resolve_in, resolve_out>>

overlapvars == <<calls>>

vars == <<botvars, azvars, resolvevars, overlapvars>>

\* how many calls of send_message_streaming overlap on the global client
MaxCalls == 2

CallIds == 1..MaxCalls

error_msg ==
    <<"Sorry, I encountered an error while processing your request",
      ".", " Please try again", ".">>

\* history[-1]["content"] = content
set_last_content(h, content) ==
    [h EXCEPT ![Len(h)] = [role |-> h[Len(h)].role, content |-> content]]

last_content(h) == h[Len(h)].content

\* the page is loaded: nothing submitted yet
InitTurn ==
    /\ msg \in UserMessages
    /\ history \in PriorHistories
    /\ pc = "idle"
    /\ published = <<>>
    /\ chunks = <<>>
    /\ stream_end = "open"
    /\ extract_calls = <<>>

\* the process has just started: no client, no thread, no agent
InitAzureFresh ==
    /\ client = FALSE
    /\ current_thread = None
    /\ agent = None
    /\ gen = "not_started"
    /\ target_thread_id = None
    /\ sdk_calls = <<>>

\* no call of find_best_match is under study
InitNoResolve ==
    /\ resolve_in = [filename |-> <<>>, file_list |-> None, wr |-> <<>>]
    /\ resolve_out = [done |-> FALSE, path |-> None]

\* no call of send_message_streaming has started; of each call: where it
\* is suspended, its local target_thread_id, the thread its user message
\* was posted to
InitNoCalls ==
    calls = [c \in CallIds |->
                [gen |-> "not_started", target_thread_id |-> None, posted_to |-> None]]

Init == InitTurn /\ InitAzureFresh /\ InitNoResolve /\ InitNoCalls

(***************************************************************************)
(* Turn Controller: user and bot                                           *)
(***************************************************************************)
\* user(user_message, history): the text box is cleared and the user entry
\* appended; bot is chained after it
user ==
    /\ pc = "idle"
    /\ msg' = <<>>
    /\ history' = Append(history, [role |-> "user", content |-> msg])
    /\ pc' = "submitted"
    /\ UNCHANGED <<published, chunks, stream_end, extract_calls>>

\* bot up to its first await: the empty assistant entry is appended
bot_start ==
    /\ pc = "submitted"
    /\ history' = Append(history, [role |-> "assistant", content |-> <<>>])
    /\ pc' = "streaming"
    /\ UNCHANGED <<msg, published, chunks, stream_end, extract_calls>>

\* a mutation of bot_chunk: the chunk replaces the content
bot_chunk_replacing(chunk) ==
    /\ pc = "streaming"
    /\ chunks' = Append(chunks, chunk)
    /\ history' = set_last_content(history, chunk)
    /\ published' = Append(published, history')
    /\ UNCHANGED <<msg, pc, stream_end, extract_calls>>

\* a mutation of bot_chunk: links are extracted after every increment
bot_chunk_extracting(chunk) ==
    /\ pc = "streaming"
    /\ chunks' = Append(chunks, chunk)
    /\ history' = set_last_content(history, last_content(history) \o chunk)
    /\ published' = Append(published, history')
    /\ extract_calls' =
          Append(extract_calls,
                 [text   |-> last_content(history'),
                  result |-> extract_markdown_links(
                                last_content(history'),
                                [exists |-> FALSE, io_error |-> FALSE, walk |-> <<>>],
                                <<>>)])
    /\ UNCHANGED <<msg, pc, stream_end>>

\* a mutation of bot_chunk: every chunk becomes an assistant entry of its own
bot_chunk_new_entry(chunk) ==
    /\ pc = "streaming"
    /\ chunks' = Append(chunks, chunk)
    /\ history' = Append(history, [role |-> "assistant", content |-> chunk])
    /\ published' = Append(published, history')
    /\ UNCHANGED <<msg, pc, stream_end, extract_calls>>

\* one iteration of the async for: the chunk is appended and the history
\* yielded
bot_chunk(chunk) ==
    /\ pc = "streaming"
    /\ chunks' = Append(chunks, chunk)
    /\ history' = set_last_content(history, last_content(history) \o chunk)
    /\ published' = Append(published, history')
    /\ UNCHANGED <<msg, pc, stream_end, extract_calls>>

\* a mutation of bot_complete: the rewrite and the yield are not guarded by
\* links_info
bot_complete_always_rewriting(dir, wr) ==
    /\ pc = "streaming"
    /\ LET final_message == last_content(history)
           extracted     == extract_markdown_links(final_message, dir, wr)
           links_info    == extracted.links_info
       IN  /\ extract_calls' =
                 Append(extract_calls, [text |-> final_message, result |-> extracted])
           /\ history' = set_last_content(history,
                             rewritten_content(final_message, links_info))
           /\ published' = Append(published, history')
    /\ stream_end' = "complete"
    /\ pc' = "done"
    /\ UNCHANGED <<msg, chunks>>

\* the stream is exhausted: links are extracted from the final message and,
\* when there are any, the message is rewritten and the history yielded once
\* more
bot_complete(dir, wr) ==
    /\ pc = "streaming"
    /\ LET final_message == last_content(history)
           extracted     == extract_markdown_links(final_message, dir, wr)
           links_info    == extracted.links_info
       IN  /\ extract_calls' =
                 Append(extract_calls, [text |-> final_message, result |-> extracted])
           /\ IF links_info # <<>>
              THEN /\ history' = set_last_content(history,
                                     rewritten_content(final_message, links_info))
                   /\ published' = Append(published, history')
              ELSE UNCHANGED <<history, published>>
    /\ stream_end' = "complete"
    /\ pc' = "done"
    /\ UNCHANGED <<msg, chunks>>

\* a mutation of bot_raise: the apology is appended to the partial content
bot_raise_appending ==
    /\ pc = "streaming"
    /\ history' = set_last_content(history, last_content(history) \o error_msg)
    /\ published' = Append(published, history')
    /\ stream_end' = "raised"
    /\ pc' = "done"
    /\ UNCHANGED <<msg, chunks, extract_calls>>

\* the stream raises: the except block replaces the content by the apology
\* and yields the history
bot_raise ==
    /\ pc = "streaming"
    /\ history' = set_last_content(history, error_msg)
    /\ published' = Append(published, history')
    /\ stream_end' = "raised"
    /\ pc' = "done"
    /\ UNCHANGED <<msg, chunks, extract_calls>>

(***************************************************************************)
(* The turn against any stream: each step of the async iterator delivers a *)
(* chunk, ends the stream, or raises                                       *)
(***************************************************************************)
Submit == user /\ UNCHANGED <<azvars, resolvevars, overlapvars>>

BotStart == bot_start /\ UNCHANGED <<azvars, resolvevars, overlapvars>>

StreamChunk ==
    /\ Len(chunks) < MaxChunks
    /\ \E chunk \in Chunks : bot_chunk(chunk)
    /\ UNCHANGED <<azvars, resolvevars, overlapvars>>

StreamComplete ==
    /\ pc = "streaming"
    /\ \E dir \in Directories :
          \E wr \in Scorers(last_content(history), dir) : bot_complete(dir, wr)
    /\ UNCHANGED <<azvars, resolvevars, overlapvars>>

StreamRaise == bot_raise /\ UNCHANGED <<azvars, resolvevars, overlapvars>>

Next ==
    \/ Submit
    \/ BotStart
    \/ StreamChunk
    \/ StreamComplete
    \/ StreamRaise

Spec == Init /\ [][Next]_vars

(***************************************************************************)
(* Properties of the turn                                                  *)
(***************************************************************************)
\* the content of the assistant entry in the n-th published history
published_content(n) == last_content(published[n])

\* the result of the only call of extract_markdown_links
extraction == extract_calls[1].result

\* C1: when the stream raises, after any number of chunks, the turn ends
\* with the assistant content equal to the apology alone, and exactly one
\* history is published after the ones of the chunks, showing the apology.
C1_RaiseShowsOnlyApology ==
    stream_end = "raised" =>
        /\ pc = "done"
        /\ last_content(history) = error_msg
        /\ Len(published) = Len(chunks) + 1
        /\ published[Len(published)] = history
        /\ extract_calls = <<>>

C1_Witness ==
    /\ stream_end = "raised"
    /\ Len(chunks) >= 2
    /\ last_content(history) = error_msg

\* C3: links are extracted at most once in a turn, only when the stream has
\* completed, and from the concatenation of all the chunks received.
C3_ExtractionOnceAtCompletion ==
    /\ Len(extract_calls) <= 1
    /\ extract_calls # <<>> =>
          /\ stream_end = "complete"
          /\ pc = "done"
          /\ extract_calls[1].text = str_join(chunks)
    /\ stream_end = "complete" => Len(extract_calls) = 1

C3_Witness ==
    /\ Len(extract_calls) = 1
    /\ Len(chunks) >= 2
    /\ extraction.links_info # <<>>

\* C4: the assistant entry starts empty; the history published after the
\* k-th chunk shows the concatenation of chunks 1..k, one publication per
\* chunk, so each content published while streaming is a prefix of the next.
C4_StreamingAppendOnly ==
    /\ \A k \in 1..Len(chunks) :
          /\ k <= Len(published)
          /\ published_content(k) = str_join(SubSeq(chunks, 1, k))
    /\ pc = "streaming" =>
          /\ Len(published) = Len(chunks)
          /\ last_content(history) = str_join(chunks)
          /\ history[Len(history)].role = "assistant"

C4_Witness ==
    /\ pc = "streaming"
    /\ Len(chunks) >= 2
    /\ published_content(1) # <<>>
    /\ published_content(2) # published_content(1)

\* the spans of the links that are extracted, in order of appearance
RECURSIVE non_http_spans(_)
non_http_spans(found) ==
    IF found = <<>> THEN <<>>
    ELSE IF is_http(Head(found).url) THEN non_http_spans(Tail(found))
    ELSE <<Head(found)>> \o non_http_spans(Tail(found))

link_spans(text) == non_http_spans(re_finditer(text, 1))

\* the message with the spans n..Len(spans) replaced, each by the anchor of
\* its own index (the later spans first, so that positions stay valid)
RECURSIVE anchors_in_place(_, _, _, _)
anchors_in_place(message, spans, links, n) ==
    IF n > Len(spans) THEN message
    ELSE Splice(anchors_in_place(message, spans, links, n + 1),
                spans[n].first, spans[n].last, anchor_link(n - 1, links[n]))

\* C5: in the rewritten message the anchor to source-card-N stands exactly
\* where the N-th extracted link stood, the anchor ids are pairwise distinct,
\* and card N carries the display name and the URL of link N.
C5_AnchorReplacesItsOwnLink ==
    (stream_end = "complete" /\ extraction.links_info # <<>>) =>
        LET text  == extract_calls[1].text
            links == extraction.links_info
            spans == link_spans(text)
        IN  /\ Len(spans) = Len(links)
            /\ \A m, n \in 1..Len(links) :
                  m # n => anchor_id(m - 1) # anchor_id(n - 1)
            /\ \A n \in 1..Len(links) :
                  /\ links[n].text = spans[n].link_text
                  /\ links[n].filename =
                        split_dot_first(candidate_filename(spans[n].link_text,
                                                           spans[n].url))
            /\ last_content(history) =
                  anchors_in_place(text, spans, links, 1) \o cards_html(links)

\* C6: extraction over the rewritten message finds no link, and so a second
\* pass leaves the message as it is.
C6_RewriteIsIdempotent ==
    (stream_end = "complete" /\ extraction.links_info # <<>>) =>
        \A dir \in Directories :
            \A wr \in Scorers(last_content(history), dir) :
                extract_markdown_links(last_content(history), dir, wr).links_info = <<>>

\* C7: when extraction yields no link, the content stays the concatenation of
\* the chunks, nothing is published after the last chunk, and the turn is
\* done without an error.
C7_NoLinksNoRewrite ==
    (extract_calls # <<>> /\ extraction.links_info = <<>>) =>
        /\ last_content(history) = str_join(chunks)
        /\ Len(published) = Len(chunks)
        /\ pc = "done"
        /\ stream_end = "complete"

\* all the links of the message were excluded as http links
C7_Witness ==
    /\ extract_calls # <<>>
    /\ extraction.links_info = <<>>
    /\ re_findall(extract_calls[1].text) # <<>>
    /\ Len(chunks) >= 2
    /\ pc = "done"

\* C9: a link that was resolved has a file reference to a path of the
\* inventory as URL, any other link its original URL, and no URL is empty;
\* with no inventory every link is unresolved, and extraction returns.
C9_FinalUrl ==
    extract_calls # <<>> =>
        LET kept  == non_http(re_findall(extract_calls[1].text))
            links == extraction.links_info
            scans == extraction.scan_log
        IN  /\ stream_end = "complete"
            /\ Len(links) = Len(kept)
            /\ \A n \in 1..Len(links) :
                  /\ links[n].url # <<>>
                  /\ links[n].fuzzy_matched =>
                        /\ scans # <<>> /\ scans[1] # None
                        /\ \E i \in 1..Len(scans[1][1]) :
                              links[n].url = file_reference(scans[1][1][i].path)
                  /\ ~links[n].fuzzy_matched => links[n].url = kept[n].url
                  /\ scans = <<None>> => ~links[n].fuzzy_matched

\* the scan found no inventory and the message has links
C9_Witness ==
    /\ extract_calls # <<>>
    /\ extraction.scan_log = <<None>>
    /\ Len(extraction.links_info) >= 2
    /\ \A n \in 1..Len(extraction.links_info) :
          extraction.links_info[n].url # <<>> /\ ~extraction.links_info[n].fuzzy_matched

\* C10: a turn scans the directory at most once, and every non-http link of
\* the message is resolved once, against the result of that scan.
C10_OneScanPerTurn ==
    /\ Len(extract_calls) <= 1
    /\ extract_calls # <<>> =>
          LET kept == non_http(re_findall(extract_calls[1].text))
          IN  /\ Len(extraction.scan_log) <= 1
              /\ Len(extraction.resolve_log) = Len(kept)
              /\ \A n \in 1..Len(kept) :
                    /\ extraction.scan_log # <<>>
                    /\ extraction.resolve_log[n].file_list = extraction.scan_log[1]
                    /\ extraction.resolve_log[n].filename =
                          candidate_filename(kept[n].link_text, kept[n].url)

\* three chunks, two links, one scan that found files
C10_Witness ==
    /\ extract_calls # <<>>
    /\ Len(chunks) = MaxChunks
    /\ Len(extraction.resolve_log) >= 2
    /\ Len(extraction.scan_log) = 1
    /\ extraction.scan_log[1] # None

(***************************************************************************)
(* find_best_match on its own: the inputs are drawn, the function applied  *)
(***************************************************************************)
\* the inventory of the resolver runs: FileEntries and a second file with
\* the stem of the first
ResolveEntries ==
    FileEntries
    \cup { [path |-> <<"public", "/", "files", "/", "s", "/", "b", " ", "c", ".", "t">>,
            is_file |-> TRUE] }

\* the candidate names: a name with an extension, a bare name, a name with a
\* directory and two dots
ResolveNames ==
    { <<"b", " ", "c", ".", "p">>,
      <<"r">>,
      <<"d", "/", "b", " ", "c", ".", "x", ".", "p">> }

\* every result of a scan, and the empty list
ResolveFileLists ==
    { scan_files_directory(dir) : dir \in DirectoriesOf(ResolveEntries) }
    \cup { Some(<<>>) }

\* the scores the scorer may give: none, at the threshold, just above, full
ScoreVals == { 0, Threshold, Threshold + 1, 100 }

InitResolve ==
    /\ InitTurn
    /\ InitAzureFresh
    /\ InitNoCalls
    /\ \E filename \in ResolveNames, file_list \in ResolveFileLists :
          \E wr \in [ {path_stem(filename)} \X StemsOf(file_list) -> ScoreVals ] :
              resolve_in = [filename |-> filename, file_list |-> file_list, wr |-> wr]
    /\ resolve_out = [done |-> FALSE, path |-> None]

Resolve ==
    /\ ~resolve_out.done
    /\ resolve_out' =
          [done |-> TRUE,
           path |-> find_best_match(resolve_in.filename, resolve_in.file_list,
                                    resolve_in.wr)]
    /\ UNCHANGED <<botvars, azvars, resolve_in, overlapvars>>

NextResolve == Resolve

SpecResolve == InitResolve /\ [][NextResolve]_vars

\* the files of the call under study and the score of the i-th of them
resolve_files == resolve_in.file_list[1]

resolve_score(i) ==
    resolve_in.wr[<<path_stem(resolve_in.filename), resolve_files[i].name_without_ext>>]

\* C8: the result is the path of the first entry, in inventory order, whose
\* stem has the highest score, when that score is above 60; it is None for
\* no inventory, an empty inventory, or a highest score of 60 or less.
C8_FirstBestAboveThreshold ==
    resolve_out.done =>
        IF resolve_in.file_list = None \/ resolve_files = <<>>
        THEN resolve_out.path = None
        ELSE LET n    == Len(resolve_files)
                 tops == { i \in 1..n : \A j \in 1..n : resolve_score(j) <= resolve_score(i) }
                 top  == CHOOSE i \in tops : \A j \in tops : i <= j
             IN  IF resolve_score(top) > 60
                 THEN resolve_out.path = Some(resolve_files[top].path)
                 ELSE resolve_out.path = None

\* two entries tie just above the threshold and the first one is returned
C8_Witness ==
    /\ resolve_out.done
    /\ resolve_in.file_list # None
    /\ Len(resolve_files) = 2
    /\ resolve_files[1].name_without_ext # resolve_files[2].name_without_ext
    /\ resolve_score(1) = 61
    /\ resolve_score(2) = 61
    /\ resolve_out.path = Some(resolve_files[1].path)

(***************************************************************************)
(* src/azure.py: send_message_to_agent_streaming, consumed by bot          *)
(***************************************************************************)
\* what the text of an SDK exception, or of run.last_error, may be
ErrorDetails == { <<"401 Unauthorized">>, <<"rate_limit_exceeded">> }

\* the latest assistant message of the thread: one or two of the chunks
Responses == Chunks \cup { a \o b : a, b \in Chunks }

\* f"Sorry, I encountered an error while processing your request: {detail}"
stream_error_msg(detail) ==
    <<"Sorry, I encountered an error while processing your request", ":", " ">>
    \o detail

no_response_msg ==
    <<"I", "'", "m sorry, I didn", "'", "t receive a proper response", ".",
      " Please try again", ".">>

\* the id of the next thread the service creates
new_thread_id ==
    "thread-" \o ToString(1 + Cardinality({ i \in 1..Len(sdk_calls) :
                                              sdk_calls[i].op = "threads.create" }))

sdk_call(op, outcome) == Append(sdk_calls, [op |-> op, outcome |-> outcome])

\* The states an earlier turn can have left the module in: no client; a
\* client whose thread creation failed; a client with a thread and no agent
\* (the turn failed before the agent was fetched); a client with both.
InitAzure ==
    /\ InitTurn
    /\ InitNoResolve
    /\ InitNoCalls
    /\ gen = "not_started"
    /\ target_thread_id = None
    /\ sdk_calls = <<>>
    /\ \/ client = FALSE /\ current_thread = None /\ agent = None
       \/ client = TRUE /\ current_thread = None /\ agent = None
       \/ client = TRUE /\ current_thread = Some("thread-0") /\ agent = None
       \/ client = TRUE /\ current_thread = Some("thread-0") /\ agent = Some("asst")

\* the first __anext__: get_azure_client, then the choice of the thread
az_start ==
    /\ pc = "streaming"
    /\ gen = "not_started"
    /\ client' = TRUE
    /\ IF current_thread # None
       THEN target_thread_id' = current_thread /\ gen' = "post"
       ELSE target_thread_id' = None /\ gen' = "create_thread"
    /\ UNCHANGED <<botvars, current_thread, agent, sdk_calls, resolvevars, overlapvars>>

\* create_new_conversation returns: the thread becomes the current one (its
\* id is not empty, so the "couldn't start a new conversation" branch is
\* not taken)
az_thread_created ==
    /\ gen = "create_thread"
    /\ current_thread' = Some(new_thread_id)
    /\ target_thread_id' = Some(new_thread_id)
    /\ sdk_calls' = sdk_call("threads.create", "ok")
    /\ gen' = "post"
    /\ UNCHANGED <<botvars, client, agent, resolvevars, overlapvars>>

\* create_new_conversation raises, outside the try of send_message_streaming:
\* the exception leaves the generator and reaches bot
az_thread_raised ==
    /\ gen = "create_thread"
    /\ sdk_calls' = sdk_call("threads.create", "raised")
    /\ gen' = "closed"
    /\ bot_raise
    /\ UNCHANGED <<client, current_thread, agent, target_thread_id, resolvevars, overlapvars>>

\* messages.create returns; a cached agent is used without a call
az_posted ==
    /\ gen = "post"
    /\ sdk_calls' = sdk_call("messages.create", "ok")
    /\ gen' = IF agent # None THEN "run" ELSE "get_agent"
    /\ UNCHANGED <<botvars, client, current_thread, agent, target_thread_id, resolvevars, overlapvars>>

\* an SDK call inside the try raises: the except block yields the error text
\* as a chunk
az_yield_error(op, detail) ==
    /\ sdk_calls' = sdk_call(op, "raised")
    /\ gen' = "yielded"
    /\ bot_chunk(stream_error_msg(detail))
    /\ UNCHANGED <<client, current_thread, agent, target_thread_id, resolvevars, overlapvars>>

az_post_raised ==
    /\ gen = "post"
    /\ \E detail \in ErrorDetails : az_yield_error("messages.create", detail)

\* _get_agent: the agent is fetched and cached
az_agent_fetched ==
    /\ gen = "get_agent"
    /\ agent' = Some("asst")
    /\ sdk_calls' = sdk_call("agents.get_agent", "ok")
    /\ gen' = "run"
    /\ UNCHANGED <<botvars, client, current_thread, target_thread_id, resolvevars, overlapvars>>

az_agent_raised ==
    /\ gen = "get_agent"
    /\ \E detail \in ErrorDetails : az_yield_error("agents.get_agent", detail)

\* runs.create_and_process returns a run that did not fail
az_run_completed ==
    /\ gen = "run"
    /\ sdk_calls' = sdk_call("runs.create_and_process", "ok")
    /\ gen' = "list"
    /\ UNCHANGED <<botvars, client, current_thread, agent, target_thread_id, resolvevars, overlapvars>>

\* the run has status failed: the error text, with run.last_error, is
\* yielded as a chunk and the generator returns
az_run_failed ==
    /\ gen = "run"
    /\ \E detail \in ErrorDetails :
          /\ sdk_calls' = sdk_call("runs.create_and_process", "failed")
          /\ gen' = "yielded"
          /\ bot_chunk(stream_error_msg(detail))
    /\ UNCHANGED <<client, current_thread, agent, target_thread_id, resolvevars, overlapvars>>

az_run_raised ==
    /\ gen = "run"
    /\ \E detail \in ErrorDetails : az_yield_error("runs.create_and_process", detail)

\* the thread's messages are listed: the latest assistant text is yielded
az_response ==
    /\ gen = "list"
    /\ sdk_calls' = sdk_call("messages.list", "ok")
    /\ gen' = "yielded"
    /\ \E latest_response \in Responses : bot_chunk(latest_response)
    /\ UNCHANGED <<client, current_thread, agent, target_thread_id, resolvevars, overlapvars>>

\* no assistant text in the thread: a fixed text is yielded
az_no_response ==
    /\ gen = "list"
    /\ sdk_calls' = sdk_call("messages.list", "empty")
    /\ gen' = "yielded"
    /\ bot_chunk(no_response_msg)
    /\ UNCHANGED <<client, current_thread, agent, target_thread_id, resolvevars, overlapvars>>

az_list_raised ==
    /\ gen = "list"
    /\ \E detail \in ErrorDetails : az_yield_error("messages.list", detail)

\* resumed after its yield the generator returns: the stream is exhausted
az_finished ==
    /\ gen = "yielded"
    /\ pc = "streaming"
    /\ gen' = "closed"
    /\ \E dir \in Directories :
          \E wr \in Scorers(last_content(history), dir) : bot_complete(dir, wr)
    /\ UNCHANGED <<client, current_thread, agent, target_thread_id, sdk_calls, resolvevars, overlapvars>>

NextAzure ==
    \/ Submit
    \/ BotStart
    \/ az_start
    \/ az_thread_created
    \/ az_thread_raised
    \/ az_posted
    \/ az_post_raised
    \/ az_agent_fetched
    \/ az_agent_raised
    \/ az_run_completed
    \/ az_run_failed
    \/ az_run_raised
    \/ az_response
    \/ az_no_response
    \/ az_list_raised
    \/ az_finished

SpecAzure == InitAzure /\ [][NextAzure]_vars

\* the agent call failed: posting the message, fetching the agent or running
\* it raised, or the run has status failed
AgentCallFailed ==
    \E i \in 1..Len(sdk_calls) :
        /\ sdk_calls[i].op \in {"messages.create", "agents.get_agent",
                                "runs.create_and_process"}
        /\ sdk_calls[i].outcome \in {"raised", "failed"}

\* C2: a failed agent call ends the chunk stream with an error instead of
\* delivering a chunk, so that the turn ends with the apology alone as the
\* assistant content.
C2_AgentFailureRaises ==
    (AgentCallFailed /\ pc = "done") =>
        /\ chunks = <<>>
        /\ stream_end = "raised"
        /\ last_content(history) = error_msg

(***************************************************************************)
(* src/azure.py: calls of send_message_streaming that overlap on the       *)
(* global client.  A call runs without interruption between two awaits;    *)
(* at an await any other call may run.  Each call is followed up to        *)
(* messages.create: the rest of the call touches neither current_thread    *)
(* nor the thread the message was posted to.                               *)
(***************************************************************************)
\* the process has no conversation thread yet; an earlier turn may have
\* left a client whose thread creation failed
InitOverlap ==
    /\ InitTurn
    /\ InitNoResolve
    /\ InitNoCalls
    /\ client \in BOOLEAN
    /\ current_thread = None
    /\ agent = None
    /\ gen = "not_started"
    /\ target_thread_id = None
    /\ sdk_calls = <<>>

\* the first __anext__ of call c: get_azure_client, then the choice of the
\* thread, up to the await of threads.create or of messages.create
call_start(c) ==
    /\ calls[c].gen = "not_started"
    /\ client' = TRUE
    /\ calls' = IF current_thread # None
                THEN [calls EXCEPT ![c].target_thread_id = current_thread,
                                   ![c].gen = "post"]
                ELSE [calls EXCEPT ![c].gen = "create_thread"]
    /\ UNCHANGED <<botvars, current_thread, agent, gen, target_thread_id,
                   sdk_calls, resolvevars>>

\* threads.create returns to call c: create_new_conversation assigns
\* current_thread, and the call reads its id back with no await in between
call_thread_created(c) ==
    /\ calls[c].gen = "create_thread"
    /\ current_thread' = Some(new_thread_id)
    /\ sdk_calls' = sdk_call("threads.create", "ok")
    /\ calls' = [calls EXCEPT ![c].target_thread_id = current_thread',
                              ![c].gen = "post"]
    /\ UNCHANGED <<botvars, client, agent, gen, target_thread_id, resolvevars>>

\* threads.create raises in call c: the exception leaves the generator
call_thread_raised(c) ==
    /\ calls[c].gen = "create_thread"
    /\ sdk_calls' = sdk_call("threads.create", "raised")
    /\ calls' = [calls EXCEPT ![c].gen = "closed"]
    /\ UNCHANGED <<botvars, client, current_thread, agent, gen, target_thread_id,
                   resolvevars>>

\* messages.create(thread_id=target_thread_id, ...) returns to call c
call_posted(c) ==
    /\ calls[c].gen = "post"
    /\ sdk_calls' = sdk_call("messages.create", "ok")
    /\ calls' = [calls EXCEPT ![c].posted_to = calls[c].target_thread_id,
                              ![c].gen = "posted"]
    /\ UNCHANGED <<botvars, client, current_thread, agent, gen, target_thread_id,
                   resolvevars>>

\* messages.create raises in call c: nothing is posted
call_post_raised(c) ==
    /\ calls[c].gen = "post"
    /\ sdk_calls' = sdk_call("messages.create", "raised")
    /\ calls' = [calls EXCEPT ![c].gen = "yielded"]
    /\ UNCHANGED <<botvars, client, current_thread, agent, gen, target_thread_id,
                   resolvevars>>

CallStart == \E c \in CallIds : call_start(c)

CallThreadCreated == \E c \in CallIds : call_thread_created(c)

CallThreadRaised == \E c \in CallIds : call_thread_raised(c)

CallPosted == \E c \in CallIds : call_posted(c)

CallPostRaised == \E c \in CallIds : call_post_raised(c)

NextOverlap ==
    \/ CallStart
    \/ CallThreadCreated
    \/ CallThreadRaised
    \/ CallPosted
    \/ CallPostRaised

SpecOverlap == InitOverlap /\ [][NextOverlap]_vars

\* the threads the service has created
threads_created ==
    { i \in 1..Len(sdk_calls) :
        sdk_calls[i].op = "threads.create" /\ sdk_calls[i].outcome = "ok" }

\* C11: however the overlapping calls interleave, at most one conversation
\* thread is created, the thread every call has chosen is still the client's
\* current_thread (it is never replaced once set), and all the user
\* messages are posted to one thread.
C11_OneSharedThread ==
    /\ Cardinality(threads_created) <= 1
    /\ \A c \in CallIds :
          calls[c].target_thread_id # None =>
              calls[c].target_thread_id = current_thread
    /\ \A c, d \in CallIds :
          (calls[c].posted_to # None /\ calls[d].posted_to # None) =>
              calls[c].posted_to = calls[d].posted_to

\* the entries of a history before its last one
earlier_entries(h) == SubSeq(h, 1, Len(h) - 1)

\* a step of the turn writes the history only at its tail
tail_step ==
    /\ pc = "idle" =>
          /\ history' = Append(history, [role |-> "user", content |-> msg])
          /\ UNCHANGED <<published, chunks, stream_end, extract_calls, azvars>>
    /\ pc = "submitted" =>
          history' = Append(history, [role |-> "assistant", content |-> <<>>])
    /\ pc \in {"streaming", "done"} =>
          /\ Len(history') = Len(history)
          /\ earlier_entries(history') = earlier_entries(history)
          /\ history'[Len(history')].role = "assistant"
    /\ published' # published => published' = Append(published, history')

\* every published history is the present one up to the assistant content
published_tail_only ==
    \A n \in 1..Len(published) :
        /\ Len(published[n]) = Len(history)
        /\ earlier_entries(published[n]) = earlier_entries(history)
        /\ published[n][Len(history)].role = "assistant"
        /\ published[n][Len(history) - 1].role = "user"

\* C12: submission appends exactly one user entry holding the typed message
\* and starts no stream; the bot then appends exactly one empty assistant
\* entry; every later step, on the streaming, rewrite and error paths, leaves
\* the number of entries and all entries but the last unchanged, and the
\* last one stays an assistant entry; every published history differs from
\* the present history at most in the content of that last entry.
C12_HistoryChangesOnlyAtTail == [](published_tail_only) /\ [][tail_step]_vars

\* a turn after an earlier exchange, ended by a rewrite
C12_Witness ==
    /\ pc = "done"
    /\ stream_end = "complete"
    /\ Len(history) = 4
    /\ Len(chunks) >= 2
    /\ Len(published) = Len(chunks) + 1
    /\ published[Len(published)] # published[Len(chunks)]
    /\ earlier_entries(history) = earlier_entries(published[1])

====
